---------------------------- MODULE Spec2Model ----------------------------
(***************************************************************************)
(* Model of detector.py: the Frame Loop (thread A), the VLM worker         *)
(* (thread B), the shared detection state, the single-slot queue between   *)
(* them and the HTTP server with its request handler.                      *)
(*                                                                         *)
(* Every atomic action below contains at most one access to a shared       *)
(* object (_state under _state_lock, _latest_jpeg under _frame_lock,       *)
(* _vlm_queue, a client socket); thread-local computation is folded into   *)
(* the action of the shared access that follows it.                        *)
(***************************************************************************)
EXTENDS Integers, Sequences, FiniteSets, TLC

(***************************************************************************)
(* Bounds of the model.                                                    *)
(***************************************************************************)
MaxFrames  == 3      \* frames the Frame Loop pulls before the model stops it
HttpFrames == 2      \* the same bound under HttpSpec
FileFrames == 2      \* length F of the video file source
MaxParts   == 2      \* multipart parts counted per stream client
Clients    == {1, 2} \* HTTP clients, one connection each
MaxSkip    == 3      \* largest configured FRAME_SKIP under CadenceSpec

(***************************************************************************)
(* Program constants.                                                      *)
(***************************************************************************)
FRAME_SKIP    == 1
QUEUE_MAXSIZE == 1
ALERT_SOUND   == TRUE

None == "None"

(***************************************************************************)
(* Python / JSON values.  A value is tagged with its type so that the      *)
(* operations the code applies to it (bool(), .upper(), len()) can be      *)
(* computed as Python computes them.                                       *)
(***************************************************************************)
PyStr(x)  == [t |-> "str",  v |-> x]
PyNum(x)  == [t |-> "num",  v |-> x]
PyBool(x) == [t |-> "bool", v |-> x]
PyNull    == [t |-> "null", v |-> "null"]
PyObj(x)  == [t |-> "obj",  v |-> x]     \* a nested JSON object

\* bool(value)
PyTruth(x) ==
  CASE x.t = "bool" -> x.v = "true"
    [] x.t = "str"  -> x.v # ""
    [] x.t = "num"  -> x.v # "0"
    [] OTHER        -> FALSE

\* dict.get(key, default) on a JSON object modelled as a function on its keys
Get(o, k, d) == IF k \in DOMAIN o THEN o[k] ELSE d

\* str.upper() for the strings of the model
Upper(x) ==
  CASE x = "fire"    -> "FIRE"
    [] x = "smoke"   -> "SMOKE"
    [] x = "both"    -> "BOTH"
    [] x = "none"    -> "NONE"
    [] x = "inferno" -> "INFERNO"
    [] OTHER         -> x

(***************************************************************************)
(* Structured objects the classifier may put in its answer.                *)
(***************************************************************************)
ObjFire ==
  [detected |-> PyBool("true"), type |-> PyStr("fire"),
   confidence |-> PyStr("high"), description |-> PyStr("flames visible")]
ObjClear ==
  [detected |-> PyBool("false"), type |-> PyStr("none"),
   confidence |-> PyStr("high"), description |-> PyStr("clear scene")]
ObjClearSmoke ==
  [detected |-> PyBool("false"), type |-> PyStr("smoke"),
   confidence |-> PyStr("low"), description |-> PyStr("maybe haze")]
ObjNullType ==
  [detected |-> PyBool("true"), type |-> PyNull,
   confidence |-> PyStr("medium"), description |-> PyStr("something burns")]
ObjOdd ==
  [detected |-> PyStr("yes"), type |-> PyStr("inferno"),
   confidence |-> PyStr("certain"), description |-> PyNum("7")]
ObjTrueNone ==
  [detected |-> PyBool("true"), type |-> PyStr("none")]
ObjEmpty == << >>
\* a member that is itself an object, {"x": 1}
ObjInner == [x |-> PyNum("1")]
ObjNested ==
  [detected |-> PyBool("true"), type |-> PyStr("smoke"),
   confidence |-> PyStr("low"), description |-> PyStr("grey plume"),
   box |-> PyObj("x1")]
\* a description with braces in its text
ObjBraceText ==
  [detected |-> PyBool("true"), type |-> PyStr("fire"),
   confidence |-> PyStr("high"), description |-> PyStr("fire {large}")]

Objects ==
  {ObjFire, ObjClear, ObjClearSmoke, ObjNullType, ObjOdd, ObjTrueNone}

(***************************************************************************)
(* Raw answer text, as a sequence of lexical pieces:                       *)
(*   "ws"    whitespace            "bt"    a run of backticks              *)
(*   "json"  the word json         "prose" text without braces             *)
(*   "{bad}" a brace block that is not JSON                                *)
(*   "[1]"   a JSON value that is not an object                            *)
(*   [obj |-> o]  the JSON text of the object o                            *)
(***************************************************************************)
Tok(x)    == [k |-> x, obj |-> << >>]
TObj(o)   == [k |-> "obj", obj |-> o]

RECURSIVE LStrip(_, _)
LStrip(s, ks) ==
  IF s # << >> /\ Head(s).k \in ks THEN LStrip(Tail(s), ks) ELSE s

RECURSIVE RStrip(_, _)
RStrip(s, ks) ==
  IF s # << >> /\ s[Len(s)].k \in ks
  THEN RStrip(SubSeq(s, 1, Len(s) - 1), ks) ELSE s

\* str.strip() / str.strip(backtick)
Strip(s, ks) == RStrip(LStrip(s, ks), ks)

\* json.loads(text): the text must be exactly one JSON value, whitespace
\* around it allowed.  Result: [ok, val, isdict].
JsonLoads(s) ==
  LET b == Strip(s, {"ws"})
  IN  IF Len(b) = 1 /\ b[1].k = "obj"
        THEN [ok |-> TRUE, isdict |-> TRUE, val |-> b[1].obj]
      ELSE IF Len(b) = 1 /\ b[1].k = "[1]"
        THEN [ok |-> TRUE, isdict |-> FALSE, val |-> << >>]
      ELSE [ok |-> FALSE, isdict |-> FALSE, val |-> << >>]

\* _JSON_PATTERN.search(raw): the first brace block without nested braces
\* and with at least one character between the braces.
IsBraceBlock(tk) ==
  \/ tk.k = "{bad}"
  \/ tk.k = "obj" /\ DOMAIN tk.obj # {}

\* the text the pattern matches inside a brace block: the text of a flat
\* object is matched whole; in an object with a nested object the first
\* match is the nested one; in an object with braces inside a string it is
\* the braces of the string
BraceBlock(tk) ==
  IF tk.k # "obj" THEN tk
  ELSE IF \E f \in DOMAIN tk.obj : tk.obj[f].t = "obj" THEN TObj(ObjInner)
  ELSE IF \E f \in DOMAIN tk.obj : tk.obj[f] = PyStr("fire {large}")
    THEN Tok("{bad}")
  ELSE tk

RECURSIVE JsonPatternSearch(_)
JsonPatternSearch(s) ==
  IF s = << >> THEN << >>
  ELSE IF IsBraceBlock(Head(s)) THEN <<BraceBlock(Head(s))>>
  ELSE JsonPatternSearch(Tail(s))

\* a parser that only tries json.loads on the stripped text
ParseStrictOnly(raw) ==
  LET r1 == Strip(Strip(Strip(raw, {"ws"}), {"bt"}), {"ws"})
      r2 == IF r1 # << >> /\ Head(r1).k = "json"
            THEN Strip(Tail(r1), {"ws"}) ELSE r1
  IN  JsonLoads(r2)

\* _parse_vlm_response(raw); ok = FALSE stands for json.JSONDecodeError
ParseVlmResponse(raw) ==
  LET r1 == Strip(Strip(Strip(raw, {"ws"}), {"bt"}), {"ws"})
      r2 == IF r1 # << >> /\ Head(r1).k = "json"
            THEN Strip(Tail(r1), {"ws"}) ELSE r1
      strict == JsonLoads(r2)
      match  == JsonPatternSearch(r2)
  IN  IF strict.ok THEN strict
      ELSE IF match # << >> THEN JsonLoads(match)
      ELSE strict

(***************************************************************************)
(* What the external classifier call can produce (session.post ... and     *)
(* resp.json ...), and the local values the worker derives from it.        *)
(***************************************************************************)
Resp(kind, raw) == [kind |-> kind, raw |-> raw]

RespTimeout   == Resp("timeout",   << >>)   \* asyncio.TimeoutError
RespTransport == Resp("transport", << >>)   \* aiohttp.ClientError
RespNotJson   == Resp("notjson",   << >>)   \* body is not JSON at all
RespBadShape  == Resp("badshape",  << >>)   \* JSON without choices[0]...

RawPlain(o)    == <<TObj(o)>>
RawFenced(o)   == <<Tok("bt"), Tok("json"), Tok("ws"), TObj(o), Tok("ws"),
                    Tok("bt")>>
RawTrailing(o) == <<TObj(o), Tok("ws"), Tok("prose")>>
RawProse       == <<Tok("prose")>>
RawBadBlock    == <<Tok("prose"), Tok("{bad}"), Tok("ws"), TObj(ObjFire)>>
RawList        == <<Tok("[1]")>>

Responses ==
  {RespTimeout, RespTransport, RespNotJson, RespBadShape}
  \cup {Resp("content", RawPlain(o)) : o \in Objects}
  \cup {Resp("content", RawFenced(ObjFire)),
        Resp("content", RawTrailing(ObjClear)),
        Resp("content", RawProse),
        Resp("content", RawBadBlock),
        Resp("content", RawList),
        Resp("content", RawPlain(ObjEmpty))}

NoResp == Resp("none", << >>)

Latencies == {40, 900}

\* lines 416-423: the local values of a parsed result
Detected(res)    == PyTruth(Get(res.val, "detected", PyBool("false")))
RawType(res)     == Get(res.val, "type", PyStr("none"))
Confidence(res)  == Get(res.val, "confidence", PyStr("low"))
Description(res) == Get(res.val, "description", PyStr(""))
\* the type of the answer stored as it came, without the guard of line 422
DtypeUnguarded(res) == RawType(res).v

Dtype(res)       == IF ~Detected(res) THEN "none" ELSE RawType(res).v

\* as Outcome, with a last except clause that catches transport errors only
OutcomeNarrow(r) ==
  CASE r.kind = "timeout"   -> "timeout"
    [] r.kind = "transport" -> "exception"
    [] r.kind = "badshape"  -> "uncaught"
    [] r.kind = "notjson"   -> "jsonerror"
    [] OTHER ->
         LET res == ParseVlmResponse(r.raw)
         IN  IF ~res.ok THEN "jsonerror"
             ELSE IF ~res.isdict THEN "uncaught"
             ELSE IF ~Detected(res) THEN "clear"
             ELSE IF RawType(res).t # "str" THEN "uncaught"
             ELSE "alert"

\* Which path of the try block (lines 408-455) a response takes.
Outcome(r) ==
  CASE r.kind = "timeout"   -> "timeout"
    [] r.kind = "transport" -> "exception"
    [] r.kind = "badshape"  -> "exception"
    [] r.kind = "notjson"   -> "jsonerror"
    [] OTHER ->
         LET res == ParseVlmResponse(r.raw)
         IN  IF ~res.ok THEN "jsonerror"
             ELSE IF ~res.isdict THEN "exception"          \* list has no .get
             ELSE IF ~Detected(res) THEN "clear"
             ELSE IF RawType(res).t # "str" THEN "exception" \* dtype.upper()
             ELSE "alert"

\* str(exc)[:80] of the exception caught at line 453
ExcText(r) ==
  CASE r.kind = "transport" -> "VLM error: Cannot connect to host"
    [] r.kind = "badshape"  -> "VLM error: 'choices'"
    [] OTHER ->
         IF ~ParseVlmResponse(r.raw).isdict
         THEN "VLM error: 'list' object has no attribute 'get'"
         ELSE "VLM error: 'NoneType' object has no attribute 'upper'"

(***************************************************************************)
(* State.                                                                  *)
(***************************************************************************)
VARIABLES
  _state,        \* the shared dict, accessed under _state_lock
  _latest_jpeg,  \* the published image, accessed under _frame_lock
  _vlm_queue,    \* queue.Queue(maxsize=1)
  source,        \* frame_loop argument: "webcam" (int) or "file" (str)
  flpc,          \* position of the Frame Loop thread
  frame_idx,     \* frame_loop local
  pos,           \* read position of the capture
  display,       \* frame_loop local: the overlaid display image
  vlm_frame,     \* frame_loop local: the frame last handed to put_nowait
  wpc,           \* position of the VLM worker
  frame,         \* worker local: the frame returned by _vlm_queue.get
  resp,          \* worker local: what the classifier call produced
  latency,       \* worker local
  conn,          \* per client: state of its connection
  request,       \* per client: the request line it sent
  serving,       \* the client whose request the server thread is handling
  hpc,           \* position of the server thread inside the handler
  jpeg,          \* do_GET local of the stream loop
  rcvd,          \* per client: what the handler has written to it
  frame_skip,    \* the configured FRAME_SKIP (line 70)
  mpc,           \* position of the main thread
  shutdown_request, \* the flag server.shutdown() raises for serve_forever
  parse_in,      \* argument of a direct call of _parse_vlm_response
  parse_out,     \* what that call returned or raised
  beeping,       \* number of _play threads that have not finished
  _state_lock,   \* the thread inside "with _state_lock", or Free
  _frame_lock,   \* the thread inside "with _frame_lock", or Free
  lpc            \* per thread: its position between two lock operations

flvars == <<source, flpc, frame_idx, pos, display, vlm_frame>>
wvars  == <<wpc, frame, resp, latency>>
hvars  == <<conn, request, serving, hpc, jpeg, rcvd>>
mvars  == <<mpc, shutdown_request>>
pvars  == <<parse_in, parse_out>>
lvars  == <<_state_lock, _frame_lock, lpc>>
xvars  == <<frame_skip, mvars, pvars, beeping, lvars>>
vars   == <<_state, _latest_jpeg, _vlm_queue, flvars, wvars, hvars, xvars>>

NoFrame == [n |-> 0, src |-> 0]
\* the value None of _latest_jpeg (line 160)
NoImage == [n |-> 0, src |-> 0, hud |-> "None"]

NoClient  == 0
NoRequest == [method |-> "", path |-> ""]
Requests  ==
  {[method |-> "GET",  path |-> "/stream"],
   [method |-> "GET",  path |-> "/api/state"],
   [method |-> "GET",  path |-> "/"],
   [method |-> "GET",  path |-> "/favicon.ico"],
   [method |-> "HEAD", path |-> "/"]}

\* lines 133-145
InitialState ==
  [alert       |-> FALSE,
   type        |-> "none",
   confidence  |-> PyStr("high"),
   description |-> PyStr("Starting up..."),
   latency_ms  |-> 0,
   frame_count |-> 0,
   alert_count |-> 0,
   last_alert  |-> None,
   source      |-> "EMDASH",
   status      |-> "starting",
   log_path    |-> "logs/detection.log"]

\* a set_state that replaces the dict: keys not passed fall back to their
\* initial values
set_state_replace(st, kwargs) ==
  [k \in DOMAIN st |->
     IF k \in DOMAIN kwargs THEN kwargs[k] ELSE InitialState[k]]

\* set_state(**kwargs): _state.update(kwargs) under _state_lock
set_state(st, kwargs) ==
  [k \in DOMAIN st |-> IF k \in DOMAIN kwargs THEN kwargs[k] ELSE st[k]]

\* a put on a queue created without maxsize
put_nowait_unbounded(q, x) == Append(q, x)

\* queue.Queue.put_nowait: raises Full (the caller passes) when the queue
\* already holds maxsize items, appends otherwise
put_nowait(q, x) == IF Len(q) >= QUEUE_MAXSIZE THEN q ELSE Append(q, x)

\* datetime.now().strftime("%H:%M:%S")
Clock == {"10:00:00", "10:00:07"}

\* the threads that use the two locks (lines 607-615): A is frame_loop,
\* B the VLM worker, H the serve_forever thread with its handler
Threads == {"A", "B", "H"}
Free    == "free"
Start   == [A |-> "open", B |-> "take", H |-> "accept"]

NoInput  == [wrap |-> "none", obj |-> << >>]
NoOutput == [done |-> FALSE, ok |-> FALSE, isdict |-> FALSE, val |-> << >>]

\* the state after main() has started the threads (lines 606-615), for a
\* configured FRAME_SKIP out of skips
InitWith(skips, inputs) ==
  /\ frame_skip \in skips
  /\ beeping = 0
  /\ _state_lock = Free
  /\ _frame_lock = Free
  /\ lpc = [t \in Threads |-> Start[t]]
  /\ mpc = "pause"
  /\ shutdown_request = FALSE
  /\ parse_in \in inputs
  /\ parse_out = NoOutput
  /\ _state = InitialState
  /\ _latest_jpeg = NoImage
  /\ _vlm_queue = << >>
  /\ source \in {"webcam", "file"}
  /\ flpc = "open"
  /\ frame_idx = 0
  /\ pos = 0
  /\ display = NoImage
  /\ vlm_frame = NoFrame
  /\ wpc = "take"
  /\ frame = NoFrame
  /\ resp = NoResp
  /\ latency = 0
  /\ conn = [c \in Clients |-> "new"]
  /\ request = [c \in Clients |-> NoRequest]
  /\ serving = NoClient
  /\ hpc = "accept"
  /\ jpeg = NoImage
  /\ rcvd = [c \in Clients |-> << >>]

Init == InitWith({FRAME_SKIP}, {NoInput})

(***************************************************************************)
(* Thread A: frame_loop(source)                                            *)
(***************************************************************************)
IsLive == source = "webcam"       \* isinstance(source, int)
SrcLabel == IF IsLive THEN "Webcam" ELSE "video.mp4"

\* lines 282-286: the capture does not open
FrameOpenFail ==
  /\ flpc = "open"
  /\ _state' = set_state(_state,
        [status |-> "error",
         description |-> PyStr("Cannot open camera / video file.")])
  /\ flpc' = "done"
  /\ UNCHANGED <<_latest_jpeg, _vlm_queue, source, frame_idx, pos, display,
                 vlm_frame, wvars, hvars, xvars>>

\* lines 282-298: the capture opens
FrameOpenOk ==
  /\ flpc = "open"
  /\ _state' = set_state(_state,
        [source |-> SrcLabel, status |-> "running",
         description |-> PyStr("Waiting for first analysis...")])
  /\ flpc' = "read"
  /\ UNCHANGED <<_latest_jpeg, _vlm_queue, source, frame_idx, pos, display,
                 vlm_frame, wvars, hvars, xvars>>

\* cap.read() returns a frame: a live device may deliver one at any time, a
\* file delivers its next frame until it is exhausted
CanRead == IF IsLive THEN TRUE ELSE pos < FileFrames

\* lines 300-311: a frame is pulled and counted
FrameRead(maxFrames) ==
  /\ flpc = "read"
  /\ frame_idx < maxFrames
  /\ CanRead
  /\ pos' = pos + 1
  /\ frame_idx' = frame_idx + 1
  /\ _state' = set_state(_state, [frame_count |-> frame_idx + 1])
  /\ flpc' = "overlay"
  /\ UNCHANGED <<_latest_jpeg, _vlm_queue, source, display, vlm_frame, wvars, hvars, xvars>>

\* lines 304-307: the file is exhausted, rewind and pull again
FrameRewind ==
  /\ flpc = "read"
  /\ ~IsLive
  /\ ~CanRead
  /\ pos' = 0
  /\ UNCHANGED <<_state, _latest_jpeg, _vlm_queue, source, flpc, frame_idx,
                 display, vlm_frame, wvars, hvars, xvars>>

\* a stop that also says so in description
FrameReadFailLiveDescribed ==
  /\ flpc = "read"
  /\ IsLive
  /\ _state' = set_state(_state,
        [status |-> "stopped", description |-> PyStr("Capture stopped")])
  /\ flpc' = "done"
  /\ UNCHANGED <<_latest_jpeg, _vlm_queue, source, frame_idx, pos, display,
                 vlm_frame, wvars, hvars, xvars>>

\* lines 304-308 and 337-339: the pull fails on a live device
FrameReadFailLive ==
  /\ flpc = "read"
  /\ IsLive
  /\ _state' = set_state(_state, [status |-> "stopped"])
  /\ flpc' = "done"
  /\ UNCHANGED <<_latest_jpeg, _vlm_queue, source, frame_idx, pos, display,
                 vlm_frame, wvars, hvars, xvars>>

\* draw_overlay raises TypeError at len(desc) when the description is a
\* truthy value without a length (line 263)
OverlayRaises(s) ==
  s.description.t \in {"num", "bool"} /\ PyTruth(s.description)

\* draw_overlay, lines 213-268 (the status text of the HUD bar, line 254)
draw_overlay(f, s) ==
  [n |-> f.n, src |-> f.src,
   hud |-> IF ~s.alert THEN "CLEAR" ELSE Upper(s.type)]

\* lines 314-317: s = get_state(); display = draw_overlay(display, s)
FrameOverlay ==
  /\ flpc = "overlay"
  /\ IF OverlayRaises(_state)
     THEN /\ flpc' = "crashed"
          /\ UNCHANGED display
     ELSE /\ flpc' = "publish"
          /\ display' = draw_overlay([n |-> frame_idx, src |-> pos], _state)
  /\ UNCHANGED <<_state, _latest_jpeg, _vlm_queue, source, frame_idx, pos,
                 vlm_frame, wvars, hvars, xvars>>

\* lines 319-320
FramePublish ==
  /\ flpc = "publish"
  /\ _latest_jpeg' = display
  /\ flpc' = "offer"
  /\ UNCHANGED <<_state, _vlm_queue, source, frame_idx, pos, display,
                 vlm_frame, wvars, hvars, xvars>>

\* an offer with a blocking put: the loop waits until the queue has room
FrameOfferBlocking ==
  /\ flpc = "offer"
  /\ IF frame_idx % frame_skip = 0
     THEN /\ Len(_vlm_queue) < QUEUE_MAXSIZE
          /\ vlm_frame' = [n |-> frame_idx, src |-> pos]
          /\ _vlm_queue' = Append(_vlm_queue, vlm_frame')
     ELSE UNCHANGED <<vlm_frame, _vlm_queue>>
  /\ flpc' = "read"
  /\ UNCHANGED <<_state, _latest_jpeg, source, frame_idx, pos, display,
                 wvars, hvars, xvars>>

\* an offer that ignores FRAME_SKIP
FrameOfferEvery ==
  /\ flpc = "offer"
  /\ vlm_frame' = [n |-> frame_idx, src |-> pos]
  /\ _vlm_queue' = put_nowait(_vlm_queue, vlm_frame')
  /\ flpc' = "read"
  /\ UNCHANGED <<_state, _latest_jpeg, source, frame_idx, pos, display,
                 wvars, hvars, xvars>>

\* lines 323-335
FrameOffer ==
  /\ flpc = "offer"
  /\ IF frame_idx % frame_skip = 0
     THEN /\ vlm_frame' = [n |-> frame_idx, src |-> pos]
          /\ _vlm_queue' = put_nowait(_vlm_queue, vlm_frame')
     ELSE UNCHANGED <<vlm_frame, _vlm_queue>>
  /\ flpc' = "read"
  /\ UNCHANGED <<_state, _latest_jpeg, source, frame_idx, pos, display, wvars, hvars, xvars>>

FrameLoop(maxFrames) ==
  \/ FrameOpenFail \/ FrameOpenOk \/ FrameRead(maxFrames) \/ FrameRewind
  \/ FrameReadFailLive \/ FrameOverlay \/ FramePublish \/ FrameOffer

(***************************************************************************)
(* Thread B: _vlm_session_loop()                                           *)
(***************************************************************************)
\* lines 386-407: frame = _vlm_queue.get(), blocking while the queue is
\* empty; the request is then in flight
WorkerTake ==
  /\ wpc = "take"
  /\ _vlm_queue # << >>
  /\ frame' = Head(_vlm_queue)
  /\ _vlm_queue' = Tail(_vlm_queue)
  /\ wpc' = "call"
  /\ UNCHANGED <<_state, _latest_jpeg, flvars, resp, latency, hvars, xvars>>

\* latency is assigned at line 412, once the response body has been read
LatencyAfter(r, lat) == IF r.kind \in {"content", "badshape"} THEN lat ELSE latency

\* lines 448-449: json.JSONDecodeError is logged, nothing is stored
WorkerJsonError(r, lat) ==
  /\ wpc = "call"
  /\ Outcome(r) = "jsonerror"
  /\ resp' = r
  /\ latency' = LatencyAfter(r, lat)
  /\ wpc' = "take"
  /\ UNCHANGED <<_state, _latest_jpeg, _vlm_queue, flvars, frame, hvars, xvars>>

\* a timeout handler that also withdraws the alert
WorkerTimeoutClearing(r, lat) ==
  /\ wpc = "call"
  /\ Outcome(r) = "timeout"
  /\ resp' = r
  /\ latency' = LatencyAfter(r, lat)
  /\ _state' = set_state(_state,
        [alert |-> FALSE, type |-> "none",
         description |-> PyStr("Ollama timeout -- retrying...")])
  /\ wpc' = "take"
  /\ UNCHANGED <<_latest_jpeg, _vlm_queue, flvars, frame, hvars, xvars>>

\* a worker that hands the frame back after a failed call
WorkerExceptionRequeue(r, lat) ==
  /\ wpc = "call"
  /\ Outcome(r) \in {"exception", "uncaught"}
  /\ resp' = r
  /\ latency' = LatencyAfter(r, lat)
  /\ _state' = set_state(_state, [description |-> PyStr(ExcText(r))])
  /\ _vlm_queue' = put_nowait(_vlm_queue, frame)
  /\ wpc' = "take"
  /\ UNCHANGED <<_latest_jpeg, flvars, frame, hvars, xvars>>

\* lines 450-452
WorkerTimeout(r, lat) ==
  /\ wpc = "call"
  /\ Outcome(r) = "timeout"
  /\ resp' = r
  /\ latency' = LatencyAfter(r, lat)
  /\ _state' = set_state(_state,
        [description |-> PyStr("Ollama timeout -- retrying...")])
  /\ wpc' = "take"
  /\ UNCHANGED <<_latest_jpeg, _vlm_queue, flvars, frame, hvars, xvars>>

\* lines 453-455: an exception raised inside the try block.  The clause
\* "except Exception" catches it and stores its text; an exception that no
\* clause of the try statement matches leaves the loop and ends the thread.
WorkerException(r, lat) ==
  /\ wpc = "call"
  /\ Outcome(r) \in {"exception", "uncaught"}
  /\ resp' = r
  /\ latency' = LatencyAfter(r, lat)
  /\ IF Outcome(r) = "exception"
     THEN /\ _state' = set_state(_state, [description |-> PyStr(ExcText(r))])
          /\ wpc' = "take"
     ELSE /\ UNCHANGED _state
          /\ wpc' = "dead"
  /\ UNCHANGED <<_latest_jpeg, _vlm_queue, flvars, frame, hvars, xvars>>

\* a result written back together with the number of the frame it is for
ResultFieldsWithFrame(r, lat) ==
  LET res == ParseVlmResponse(r.raw)
  IN  [alert       |-> Detected(res),
       type        |-> Dtype(res),
       confidence  |-> Confidence(res),
       description |-> Description(res),
       latency_ms  |-> lat,
       frame_count |-> frame.n]

\* the keyword arguments of the set_state call at lines 440-446
ResultFields(r, lat) ==
  LET res == ParseVlmResponse(r.raw)
  IN  [alert       |-> Detected(res),
       type        |-> Dtype(res),
       confidence  |-> Confidence(res),
       description |-> Description(res),
       latency_ms  |-> lat]

\* lines 409-423 and 434-446: a result that is not a detection
WorkerClear(r, lat) ==
  /\ wpc = "call"
  /\ Outcome(r) = "clear"
  /\ resp' = r
  /\ latency' = lat
  /\ _state' = set_state(_state, ResultFields(r, lat))
  /\ wpc' = "take"
  /\ UNCHANGED <<_latest_jpeg, _vlm_queue, flvars, frame, hvars, xvars>>

\* a critical section that counts the alert and leaves the time for later
CountAlertOnly(st, now) ==
  [st EXCEPT !.alert_count = @ + 1]

\* a detection that is not counted
CountAlertSkipped(st, now) == st

\* lines 431-433: the critical section of a detection
CountAlert(st, now) ==
  [st EXCEPT !.alert_count = @ + 1, !.last_alert = now]

\* a detection whose sound is played by the worker itself: it stays at the
\* playback until that ends
WorkerAlertPlaying(r, lat, now) ==
  /\ wpc = "call"
  /\ Outcome(r) = "alert"
  /\ resp' = r
  /\ latency' = lat
  /\ wpc' = "play"
  /\ UNCHANGED <<_state, _latest_jpeg, _vlm_queue, flvars, frame, hvars,
                 xvars>>

\* lines 409-433: a detection; _beep() starts a _play thread and returns
\* (lines 468-486), then the counters are written
WorkerAlert(r, lat, now) ==
  /\ wpc = "call"
  /\ Outcome(r) = "alert"
  /\ resp' = r
  /\ latency' = lat
  /\ beeping' = IF ALERT_SOUND THEN beeping + 1 ELSE beeping
  /\ _state' = CountAlert(_state, now)
  /\ wpc' = "set_state"
  /\ UNCHANGED <<_latest_jpeg, _vlm_queue, flvars, frame, hvars, frame_skip,
                 mvars, pvars, lvars>>

\* lines 440-446 after a detection
WorkerSetState ==
  /\ wpc = "set_state"
  /\ _state' = set_state(_state, ResultFields(resp, latency))
  /\ wpc' = "take"
  /\ UNCHANGED <<_latest_jpeg, _vlm_queue, flvars, frame, resp, latency, hvars, xvars>>

Worker(Rs, Ls, Ts) ==
  \/ WorkerTake
  \/ \E r \in Rs, lat \in Ls :
        \/ WorkerJsonError(r, lat)
        \/ WorkerTimeout(r, lat)
        \/ WorkerException(r, lat)
        \/ WorkerClear(r, lat)
        \/ \E now \in Ts : WorkerAlert(r, lat, now)
  \/ WorkerSetState

(***************************************************************************)
(* HTTP: clients, HTTPServer.serve_forever (one thread) and _Handler       *)
(***************************************************************************)
\* a client connects and sends its request; the connection waits in the
\* listen backlog of the server socket
ClientConnect(c, rq) ==
  /\ conn[c] = "new"
  /\ conn' = [conn EXCEPT ![c] = "pending"]
  /\ request' = [request EXCEPT ![c] = rq]
  /\ UNCHANGED <<_state, _latest_jpeg, _vlm_queue, flvars, wvars, xvars, serving,
                 hpc, jpeg, rcvd>>

\* a client whose request is being handled closes its end
ClientDisconnect(c) ==
  /\ conn[c] = "open"
  /\ conn' = [conn EXCEPT ![c] = "closed"]
  /\ UNCHANGED <<_state, _latest_jpeg, _vlm_queue, flvars, wvars, xvars, request,
                 serving, hpc, jpeg, rcvd>>

\* lines 613-615: HTTPServer handles requests in the serve_forever thread
\* itself; it accepts the next connection only between two requests, and
\* only while shutdown() has not been called
ServerAccept(c) ==
  /\ serving = NoClient
  /\ hpc = "accept"
  /\ ~shutdown_request
  /\ conn[c] = "pending"
  /\ serving' = c
  /\ conn' = [conn EXCEPT ![c] = "open"]
  /\ hpc' = "handle"
  /\ UNCHANGED <<_state, _latest_jpeg, _vlm_queue, flvars, wvars, xvars, request,
                 jpeg, rcvd>>

\* a failure that takes every connection down with it
FinishAll(c) ==
  /\ serving' = NoClient
  /\ hpc' = "accept"
  /\ conn' = [d \in Clients |->
                IF conn[d] \in {"pending", "open", "closed"} THEN "done"
                ELSE conn[d]]

\* the handler returns (or raises to the server); the server closes the
\* connection and goes back to accepting
Finish(c) ==
  /\ serving' = NoClient
  /\ hpc' = "accept"
  /\ conn' = [conn EXCEPT ![c] = "done"]

Send(c, item) ==
  IF conn[c] = "open" THEN rcvd' = [rcvd EXCEPT ![c] = Append(@, item)]
  ELSE UNCHANGED rcvd

\* lines 504-506
HandlerHead ==
  /\ hpc = "handle"
  /\ request[serving].method = "HEAD"
  /\ Send(serving, [kind |-> "head", code |-> 200])
  /\ Finish(serving)
  /\ UNCHANGED <<_state, _latest_jpeg, _vlm_queue, flvars, wvars, xvars, request,
                 jpeg>>

\* lines 512-520: the response head of /stream
HandlerStreamStart ==
  /\ hpc = "handle"
  /\ request[serving].method = "GET"
  /\ request[serving].path = "/stream"
  /\ IF conn[serving] = "open"
     THEN /\ hpc' = "stream_read"
          /\ UNCHANGED <<conn, serving>>
     ELSE Finish(serving)
  /\ UNCHANGED <<_state, _latest_jpeg, _vlm_queue, flvars, wvars, xvars, request,
                 jpeg, rcvd>>

\* a send loop that takes the image the Frame Loop is still working on
HandlerStreamReadDisplay ==
  /\ hpc = "stream_read"
  /\ jpeg' = display
  /\ hpc' = IF display = NoImage THEN "stream_read" ELSE "stream_write"
  /\ UNCHANGED <<_state, _latest_jpeg, _vlm_queue, flvars, wvars, xvars, conn,
                 request, serving, rcvd>>

\* lines 523-527: read the published image; sleep and read again if None
HandlerStreamRead ==
  /\ hpc = "stream_read"
  /\ jpeg' = _latest_jpeg
  /\ hpc' = IF _latest_jpeg = NoImage THEN "stream_read" ELSE "stream_write"
  /\ UNCHANGED <<_state, _latest_jpeg, _vlm_queue, flvars, wvars, xvars, conn,
                 request, serving, rcvd>>

\* of the parts a stream client received the model keeps the last MaxParts
LastParts(s) == IF Len(s) > MaxParts THEN Tail(s) ELSE s

\* lines 528-537: write one part; a failed write ends the loop
HandlerStreamWrite ==
  /\ hpc = "stream_write"
  /\ IF conn[serving] = "open"
     THEN /\ rcvd' = [rcvd EXCEPT ![serving] =
                LastParts(Append(@, [kind |-> "part", image |-> jpeg]))]
          /\ hpc' = "stream_read"
          /\ UNCHANGED <<conn, serving>>
     ELSE /\ Finish(serving)
          /\ UNCHANGED rcvd
  /\ UNCHANGED <<_state, _latest_jpeg, _vlm_queue, flvars, wvars, xvars, request,
                 jpeg>>

\* lines 540-548
HandlerApiState ==
  /\ hpc = "handle"
  /\ request[serving].method = "GET"
  /\ request[serving].path = "/api/state"
  /\ Send(serving, [kind |-> "state", body |-> _state])
  /\ Finish(serving)
  /\ UNCHANGED <<_state, _latest_jpeg, _vlm_queue, flvars, wvars, xvars, request,
                 jpeg>>

\* lines 551-560: index.html is there or not
HandlerIndex(found) ==
  /\ hpc = "handle"
  /\ request[serving].method = "GET"
  /\ request[serving].path = "/"
  /\ Send(serving, [kind |-> "html", code |-> IF found THEN 200 ELSE 404])
  /\ Finish(serving)
  /\ UNCHANGED <<_state, _latest_jpeg, _vlm_queue, flvars, wvars, xvars, request,
                 jpeg>>

\* lines 561-562
HandlerNotFound ==
  /\ hpc = "handle"
  /\ request[serving].method = "GET"
  /\ request[serving].path \notin {"/stream", "/api/state", "/"}
  /\ Send(serving, [kind |-> "error", code |-> 404])
  /\ Finish(serving)
  /\ UNCHANGED <<_state, _latest_jpeg, _vlm_queue, flvars, wvars, xvars, request,
                 jpeg>>

Http ==
  \/ \E c \in Clients, rq \in Requests : ClientConnect(c, rq)
  \/ \E c \in Clients : ClientDisconnect(c)
  \/ \E c \in Clients : ServerAccept(c)
  \/ HandlerHead
  \/ HandlerStreamStart
  \/ HandlerStreamRead
  \/ HandlerStreamWrite
  \/ HandlerApiState
  \/ \E found \in BOOLEAN : HandlerIndex(found)
  \/ HandlerNotFound

(***************************************************************************)
(* The _play thread of _beep (lines 473-484): the playback ends, is cut    *)
(* off by its timeout, or hangs; nothing waits for it.                     *)
(***************************************************************************)
BeepDone ==
  /\ beeping > 0
  /\ beeping' = beeping - 1
  /\ UNCHANGED <<_state, _latest_jpeg, _vlm_queue, flvars, wvars, hvars,
                 frame_skip, mvars, pvars, lvars>>

(***************************************************************************)
(* _parse_vlm_response called on its own: the text of an object of         *)
(* ParseObjects, bare or inside one of the wrappings of Wrappings.         *)
(***************************************************************************)
ParseObjects == Objects \cup {ObjEmpty, ObjNested, ObjBraceText}

Wrappings ==
  {"plain", "fenced", "fence", "fencews", "trailing", "leading",
   "fencedtrailing"}

Wrap(w, o) ==
  CASE w = "plain"    -> RawPlain(o)
    [] w = "fenced"   -> RawFenced(o)
    [] w = "fence"    -> <<Tok("bt"), Tok("ws"), TObj(o), Tok("ws"), Tok("bt")>>
    [] w = "fencews"  -> <<Tok("ws"), Tok("bt"), Tok("json"), TObj(o),
                           Tok("bt"), Tok("ws")>>
    [] w = "trailing" -> RawTrailing(o)
    [] w = "leading"  -> <<Tok("prose"), Tok("ws"), TObj(o)>>
    [] w = "fencedtrailing" ->
         <<Tok("bt"), Tok("json"), Tok("ws"), TObj(o), Tok("ws"), Tok("bt"),
           Tok("ws"), Tok("prose")>>

ParseInputs == {[wrap |-> w, obj |-> o] : w \in Wrappings, o \in ParseObjects}

ParseCall ==
  /\ ~parse_out.done
  /\ parse_in \in ParseInputs
  /\ LET res == ParseVlmResponse(Wrap(parse_in.wrap, parse_in.obj))
     IN  parse_out' = [done |-> TRUE, ok |-> res.ok, isdict |-> res.isdict,
                       val |-> res.val]
  /\ UNCHANGED <<_state, _latest_jpeg, _vlm_queue, flvars, wvars, hvars,
                 frame_skip, mvars, parse_in, beeping, lvars>>

(***************************************************************************)
(* The main thread (lines 613-641) and the end of serve_forever.           *)
(***************************************************************************)
\* lines 634-641: a signal arrives while main() is in signal.pause();
\* _shutdown calls server.shutdown(), which raises the flag and then waits
\* until serve_forever has returned
MainSignal ==
  /\ mpc = "pause"
  /\ mpc' = "shutdown"
  /\ shutdown_request' = TRUE
  /\ UNCHANGED <<_state, _latest_jpeg, _vlm_queue, flvars, wvars, hvars,
                 frame_skip, pvars, beeping, lvars>>

\* lines 614-615: serve_forever tests the flag between two requests, never
\* inside a handler, and returns
ServerShutdown ==
  /\ hpc = "accept"
  /\ serving = NoClient
  /\ shutdown_request
  /\ hpc' = "shut"
  /\ UNCHANGED <<_state, _latest_jpeg, _vlm_queue, flvars, wvars, conn,
                 request, serving, jpeg, rcvd, xvars>>

\* lines 636-637: server.shutdown() has returned; sys.exit(0) ends the
\* process, and the daemon threads A and B (lines 607-610) with it
MainExit ==
  /\ mpc = "shutdown"
  /\ hpc = "shut"
  /\ mpc' = "exited"
  /\ flpc' = "exited"
  /\ wpc' = "exited"
  /\ UNCHANGED <<_state, _latest_jpeg, _vlm_queue, source, frame_idx, pos,
                 display, vlm_frame, frame, resp, latency, hvars,
                 frame_skip, shutdown_request, pvars, beeping, lvars>>

Main == MainSignal \/ MainExit

(***************************************************************************)
(* Specifications.                                                         *)
(*                                                                         *)
(* Spec is the pipeline: Frame Loop and worker with every classifier       *)
(* answer of Responses.  The HTTP handlers only read _state and            *)
(* _latest_jpeg, so they add no behaviour of the pipeline variables.       *)
(*                                                                         *)
(* HttpSpec is the Frame Loop with the clients, the server thread and the  *)
(* main thread: the producer of _latest_jpeg and of status, the readers of *)
(* both, and the shutdown.  The handlers share no variable with the worker *)
(* that either of them writes.  HttpFairSpec adds the scheduling.          *)
(*                                                                         *)
(* CadenceSpec is the pipeline for several values of FRAME_SKIP.           *)
(* ParseSpec calls _parse_vlm_response once on each input of ParseInputs.  *)
(***************************************************************************)
Next == FrameLoop(MaxFrames) \/ Worker(Responses, Latencies, Clock)

Spec == Init /\ [][Next]_vars

HttpNext == FrameLoop(HttpFrames) \/ Http \/ ServerShutdown \/ Main

HttpSpec == Init /\ [][HttpNext]_vars

\* the pipeline for every FRAME_SKIP from 1 to MaxSkip (line 70 is meant to
\* be edited), with one classifier answer of each kind
SkipFactors == 1..MaxSkip

CadenceResponses ==
  {RespTimeout, RespTransport, RespNotJson,
   Resp("content", RawPlain(ObjFire)), Resp("content", RawPlain(ObjClear))}

CadenceInit == InitWith(SkipFactors, {NoInput})

CadenceNext ==
  FrameLoop(MaxFrames) \/ Worker(CadenceResponses, {40}, {"10:00:00"})

CadenceSpec == CadenceInit /\ [][CadenceNext]_vars

\* the pipeline with the _play threads, which end at any time or never
SoundNext ==
  \/ FrameLoop(MaxFrames)
  \/ Worker(CadenceResponses, {40}, {"10:00:00"})
  \/ BeepDone

SoundSpec == Init /\ [][SoundNext]_vars

\* _parse_vlm_response applied once to each input of ParseInputs
ParseInit == InitWith({FRAME_SKIP}, ParseInputs)

ParseNext == ParseCall

ParseSpec == ParseInit /\ [][ParseNext]_vars

\* the steps of the serve_forever thread: accepting, handling, returning
ServerThread ==
  \/ \E c \in Clients : ServerAccept(c)
  \/ HandlerHead
  \/ HandlerStreamStart
  \/ HandlerStreamRead
  \/ HandlerStreamWrite
  \/ HandlerApiState
  \/ \E found \in BOOLEAN : HandlerIndex(found)
  \/ HandlerNotFound
  \/ ServerShutdown

\* HttpSpec with the scheduling of the threads: a thread that can take a
\* step eventually takes one.  Clients and signals come when they come.
HttpFairSpec ==
  /\ HttpSpec
  /\ WF_vars(FrameLoop(HttpFrames))
  /\ WF_vars(ServerThread)
  /\ WF_vars(MainExit)

(***************************************************************************)
(* The lock discipline.  What each thread does at each of its positions,   *)
(* seen from the two locks: a with-block on one lock whose body only       *)
(* touches memory, or a call that can block (camera, queue, HTTP, socket,  *)
(* sleep) made outside any with-block.                                     *)
(***************************************************************************)
\* "with lock:" whose body reads or writes memory and returns
With(lock, next) == [op |-> "with", lock |-> lock, body |-> "memory", next |-> next]

\* a call that may block, made while holding no lock
Blocking(next) == [op |-> "blocking", lock |-> None, body |-> None, next |-> next]

\* the thread function has returned
Returned == [op |-> "returned", lock |-> None, body |-> None, next |-> {}]

\* frame_loop (lines 279-339)
FrameLoopCode ==
  [open    |-> Blocking({"failed", "started"}),      \* cv2.VideoCapture 281-282
   failed  |-> With("_state_lock", {"returned"}),     \* set_state 285, return
   started |-> With("_state_lock", {"read"}),         \* set_state 293
   read    |-> Blocking({"read", "count", "stopped"}), \* cap.read 302, rewind 306
   count   |-> With("_state_lock", {"get"}),          \* set_state 311
   get     |-> With("_state_lock", {"publish", "returned"}),
                                       \* get_state 314; draw_overlay may raise
   publish |-> With("_frame_lock", {"sleep"}),        \* 319-320
   sleep   |-> Blocking({"read"}),     \* put_nowait 323-331, time.sleep 333-335
   stopped |-> With("_state_lock", {"returned"}),     \* set_state 338
   returned |-> Returned]

\* _vlm_session_loop (lines 386-455)
WorkerCode ==
  [take   |-> Blocking({"post"}),                     \* _vlm_queue.get 388-390
   post   |-> Blocking({"take", "failed", "count", "store"}),
                              \* session.post 409-410; JSONDecodeError 448-449
   failed |-> With("_state_lock", {"take"}),          \* set_state 452, 455
   count  |-> With("_state_lock", {"store"}),         \* 431-433
   store  |-> With("_state_lock", {"take"})]          \* set_state 440-446

\* the handler stream loop that sleeps inside the with-block
HandlerCodeSleepLocked ==
  [accept       |-> Blocking({"stream_read", "api_state", "reply"}),
   stream_read  |-> [op |-> "with", lock |-> "_frame_lock", body |-> "blocking",
                     next |-> {"stream_read", "stream_write"}],
   stream_sleep |-> Blocking({"stream_read"}),
   stream_write |-> Blocking({"stream_read", "accept"}),
   api_state    |-> With("_state_lock", {"reply"}),
   reply        |-> Blocking({"accept"})]

\* serve_forever and _Handler.do_GET (lines 504-562)
HandlerCode ==
  [accept       |-> Blocking({"stream_read", "api_state", "reply"}),
                                              \* accept, parse the request
   stream_read  |-> With("_frame_lock", {"stream_sleep", "stream_write"}),
                                              \* 523-524
   stream_sleep |-> Blocking({"stream_read"}),             \* time.sleep 526
   stream_write |-> Blocking({"stream_read", "accept"}),   \* write, sleep 528-537
   api_state    |-> With("_state_lock", {"reply"}),        \* get_state 541
   reply        |-> Blocking({"accept"})]     \* send_response .. wfile.write

Code == [A |-> FrameLoopCode, B |-> WorkerCode, H |-> HandlerCode]

\* what thread t is about to do
At(t) == Code[t][lpc[t]]

Owner(lock) == IF lock = "_state_lock" THEN _state_lock ELSE _frame_lock

\* Lock.acquire() at the head of a with-block: returns once the lock is free
Acquire(t) ==
  /\ At(t).op = "with"
  /\ Owner(At(t).lock) = Free
  /\ IF At(t).lock = "_state_lock"
       THEN _state_lock' = t /\ UNCHANGED _frame_lock
       ELSE _frame_lock' = t /\ UNCHANGED _state_lock
  /\ UNCHANGED <<lpc, _state, _latest_jpeg, _vlm_queue, flvars, wvars, hvars,
                 frame_skip, mvars, pvars, beeping>>

\* the body of the with-block has run; Lock.release() at its end
Release(t) ==
  /\ At(t).op = "with"
  /\ Owner(At(t).lock) = t
  /\ IF At(t).lock = "_state_lock"
       THEN _state_lock' = Free /\ UNCHANGED _frame_lock
       ELSE _frame_lock' = Free /\ UNCHANGED _state_lock
  /\ \E n \in At(t).next : lpc' = [lpc EXCEPT ![t] = n]
  /\ UNCHANGED <<_state, _latest_jpeg, _vlm_queue, flvars, wvars, hvars,
                 frame_skip, mvars, pvars, beeping>>

\* a blocking call returns
Return(t) ==
  /\ At(t).op = "blocking"
  /\ \E n \in At(t).next : lpc' = [lpc EXCEPT ![t] = n]
  /\ UNCHANGED <<_state_lock, _frame_lock, _state, _latest_jpeg, _vlm_queue,
                 flvars, wvars, hvars, frame_skip, mvars, pvars, beeping>>

LockNext ==
  \/ \E t \in Threads : Acquire(t)
  \/ \E t \in Threads : Release(t)
  \/ \E t \in Threads : Return(t)

LockSpec == Init /\ [][LockNext]_vars

\* the scheduling of the threads: a thread inside a with-block whose body
\* only touches memory reaches the end of the block; a thread waiting for a
\* lock that keeps becoming free gets it.  A blocking call returns when
\* it returns.
LockFairSpec ==
  /\ LockSpec
  /\ \A t \in Threads : WF_vars(Release(t) /\ At(t).body = "memory")
  /\ \A t \in Threads : SF_vars(Acquire(t))

(***************************************************************************)
(* Claims.                                                                 *)
(***************************************************************************)
Streaming(d) == serving = d /\ hpc \in {"stream_read", "stream_write"}

\* C1: a client connected to /stream never prevents another request from
\* being served: whenever a request waits while some other client is in its
\* stream loop, the server can take the waiting request.
C1_StreamClientsIndependent ==
  \A c \in Clients, d \in Clients :
    (c # d /\ conn[c] = "pending" /\ Streaming(d)) => ENABLED ServerAccept(c)

\* C2: the frame a take() returns is the last frame the Frame Loop offered
\* before it, however many offers were made since the previous take().
C2_TakeReturnsLastOffer ==
  [][(wpc = "take" /\ wpc' = "call") => frame' = vlm_frame]_vars

C4_StateAtomicity ==
  [][(\/ _state'.alert_count # _state.alert_count
      \/ _state'.last_alert # _state.last_alert)
       => LET f == ResultFields(resp', latency')
          IN  /\ _state'.alert = f.alert
              /\ _state'.type = f.type
              /\ _state'.confidence = f.confidence
              /\ _state'.description = f.description
              /\ _state'.latency_ms = f.latency_ms]_vars

\* the normalized detected flag of the answer of a cycle (FALSE when the
\* answer carries no structured object)
NormalizedDetected(r) ==
  /\ r.kind = "content"
  /\ ParseVlmResponse(r.raw).ok
  /\ ParseVlmResponse(r.raw).isdict
  /\ Detected(ParseVlmResponse(r.raw))

\* C5: alert_count counts exactly the cycles whose normalized result had
\* detected = true: the step that receives the answer of a cycle adds one
\* if the result is a detection and nothing otherwise, and no other step
\* changes alert_count.
C5_AlertCounting ==
  [][IF wpc = "call" /\ wpc' # "call"
     THEN _state'.alert_count =
            _state.alert_count + (IF NormalizedDetected(resp') THEN 1 ELSE 0)
     ELSE _state'.alert_count = _state.alert_count]_vars

\* C6: a result with detected = false is stored with type none and does not
\* change alert_count, whatever type the answer carried; in every state
\* alert = false implies type = none.
C6_Normalization ==
  /\ [](~_state.alert => _state.type = "none")
  /\ [][(wpc = "call" /\ wpc' = "take" /\ resp'.kind = "content"
          /\ Outcome(resp') = "clear")
         => /\ _state'.type = "none"
            /\ _state'.alert = FALSE
            /\ _state'.alert_count = _state.alert_count]_vars

\* C6 witness: the answer said not detected with type smoke and was stored
C6_Witness ==
  /\ wpc = "take"
  /\ resp.kind = "content"
  /\ Outcome(resp) = "clear"
  /\ RawType(ParseVlmResponse(resp.raw)).v = "smoke"
  /\ _state.description = PyStr("maybe haze")
  /\ _state.type = "none"

\* the descriptions that do not report a failed cycle: the texts of the
\* Frame Loop, the initial text and the descriptions of parsed results
ResultDescriptions ==
  {Description(ParseVlmResponse(r.raw)) :
     r \in {x \in Responses : x.kind = "content"
                              /\ ParseVlmResponse(x.raw).isdict}}

OrdinaryDescriptions ==
  {PyStr("Starting up..."), PyStr("Waiting for first analysis..."),
   PyStr("Cannot open camera / video file.")} \cup ResultDescriptions

\* C7: every failed cycle (no structured object in the answer, timeout,
\* transport error) leaves a failure description in _state.description.
C7_FailureDescribed ==
  [][(wpc = "call" /\ wpc' = "take"
       /\ Outcome(resp') \in {"jsonerror", "timeout", "exception"})
      => _state'.description \notin OrdinaryDescriptions]_vars

\* C8: the worker thread never ends: it is always at take(), waiting for
\* the answer of its call, or between the two writes of a detection, and
\* every step it takes after an answer leads back towards take().
C8_WorkerNeverTerminates ==
  /\ [](wpc \in {"take", "call", "set_state"})
  /\ [][/\ (wpc = "call" /\ wpc' # "call") => wpc' \in {"take", "set_state"}
        /\ (wpc = "set_state" /\ wpc' # "set_state") => wpc' = "take"]_vars

\* C8 witness: back at take() after an answer that raised inside the try
C8_Witness ==
  /\ wpc = "take"
  /\ resp.kind = "content"
  /\ Outcome(resp) = "exception"

\* C9: after a failed pull on a live device that was running, the Frame
\* Loop has ended and status is error.
C9_LiveFailureIsError ==
  (flpc = "done" /\ IsLive /\ _state.source = "Webcam")
    => _state.status = "error"

\* C10: status moves only starting -> running -> {stopped, error} or
\* starting -> error, and a terminal status never changes.
C10_StatusMonotone ==
  /\ _state.status = "starting"
  /\ [][/\ _state.status = "starting"
           => _state'.status \in {"starting", "running", "error"}
        /\ _state.status = "running"
           => _state'.status \in {"running", "stopped", "error"}
        /\ _state.status \in {"stopped", "error"}
           => _state'.status = _state.status]_vars

\* C10 witness: the worker stored a result after the Frame Loop had stopped
C10_Witness ==
  /\ _state.status = "stopped"
  /\ flpc = "done"
  /\ wpc = "take"
  /\ resp.kind = "content"
  /\ _state.latency_ms > 0
  /\ _vlm_queue = << >>
  /\ frame.n = frame_idx

\* a file source that opened: the loop runs at one of these positions
InLoop == flpc \in {"read", "overlay", "publish", "offer"}

\* C11: with a file source that opened, the Frame Loop never terminates; a
\* failed pull rewinds the file to frame 0 and changes nothing else, the
\* frame pulled as number n is source frame ((n - 1) mod F) + 1, frame_count
\* goes up by one with it and status stays running.
C11_FileSourceLoops ==
  /\ [](source = "file" /\ _state.status = "running" => InLoop)
  /\ [][source = "file" /\ _state.status = "running"
          => /\ _state'.status = "running"
             /\ (flpc = "read" /\ pos = FileFrames /\ pos' # pos)
                  => pos' = 0 /\ frame_idx' = frame_idx /\ _state' = _state
             /\ frame_idx' # frame_idx
                  => /\ frame_idx' = frame_idx + 1
                     /\ pos' = (frame_idx % FileFrames) + 1
                     /\ _state'.frame_count = _state.frame_count + 1
                     /\ _state'.frame_count = frame_idx']_vars


\* C12: the Frame Loop never waits on the worker.  At every position of the
\* running loop its next step is enabled, whatever the position of the
\* worker and the content of the queue; while a classification call is
\* outstanding every pull raises frame_count by one, every publish replaces
\* the published image by the image of the frame just pulled, and the offer
\* goes through to the next pull.
C12_NoBackpressure ==
  /\ []((InLoop /\ (flpc = "read" => frame_idx < MaxFrames))
          => ENABLED FrameLoop(MaxFrames))
  /\ [][wpc = "call" /\ wpc' = "call"
          => /\ (flpc = "read" /\ flpc' = "overlay")
                  => _state'.frame_count = _state.frame_count + 1
             /\ (flpc = "publish" /\ flpc' # flpc)
                  => _latest_jpeg'.n = frame_idx /\ _latest_jpeg' # _latest_jpeg
             /\ (flpc = "offer" /\ flpc' # flpc) => flpc' = "read"]_vars

\* C12 witness: the call for frame 1 is still outstanding, the queue is
\* full, and the Frame Loop has pulled and published two more frames
C12_Witness ==
  /\ wpc = "call"
  /\ frame.n = 1
  /\ Len(_vlm_queue) = QUEUE_MAXSIZE
  /\ frame_idx = 3
  /\ _latest_jpeg.n = 3
  /\ _state.frame_count = 3
  /\ flpc = "read"


\* C13: once a termination signal has been delivered, the HTTP server stops
\* serving and the process exits, from every reachable state, also with
\* clients connected to /stream.
C13_ShutdownExits ==
  shutdown_request ~> (hpc = "shut" /\ mpc = "exited")


\* C14: when the write to a stream client fails, only the send loop of that
\* client ends: the server thread goes back to accepting, the connections
\* and the received data of all other clients, the Frame Loop, the worker,
\* the shared state, the published image, the queue and the main thread are
\* as they were.
C14_DisconnectIsolated ==
  [][(hpc = "stream_write" /\ conn[serving] = "closed" /\ hpc' # hpc)
       => /\ hpc' = "accept"
          /\ serving' = NoClient
          /\ \A d \in Clients \ {serving} : conn'[d] = conn[d]
          /\ rcvd' = rcvd
          /\ UNCHANGED <<_state, _latest_jpeg, _vlm_queue, flvars, wvars,
                         request, xvars>>]_vars

\* C14 witness: client 1 received a part and its next write failed; the
\* request of client 2 is waiting, the Frame Loop is still pulling
C14_Witness ==
  /\ conn[1] = "done"
  /\ request[1].path = "/stream"
  /\ rcvd[1] # << >>
  /\ hpc = "accept"
  /\ conn[2] = "pending"
  /\ InLoop
  /\ _state.status = "running"


\* the client has received a state snapshot with a terminal status
AnsweredTerminal(c) ==
  \E i \in 1..Len(rcvd[c]) :
    /\ rcvd[c][i].kind = "state"
    /\ rcvd[c][i].body.status \in {"error", "stopped"}

\* C15: after the Frame Loop has ended on a failure of its source, every
\* GET /api/state a client has sent is eventually answered with a snapshot
\* that shows the terminal status (unless the client hangs up or the
\* process is told to stop in the meantime).
C15_StateServedAfterFailure ==
  \A c \in Clients :
    (/\ flpc = "done"
     /\ conn[c] = "pending"
     /\ request[c] = [method |-> "GET", path |-> "/api/state"]
     /\ mpc = "pause")
      ~> (AnsweredTerminal(c) \/ conn[c] = "closed" \/ mpc # "pause")


\* the parts a client has received
Parts(c) == {i \in 1..Len(rcvd[c]) : rcvd[c][i].kind = "part"}

\* C16: the send loop of a stream client reads the published image anew in
\* every cycle.  While no image has been published it writes nothing and
\* keeps the connection; every part it writes carries exactly the image
\* that was the published one when the loop read it: never None, never a
\* blend, never the image the Frame Loop has not published yet.
C16_PartsArePublishedImages ==
  /\ [](/\ (hpc = "stream_write" => jpeg # NoImage)
        /\ \A c \in Clients : \A i \in Parts(c) :
             /\ rcvd[c][i].image.n \in 1.._latest_jpeg.n
             /\ rcvd[c][i].image.n = _latest_jpeg.n
                  => rcvd[c][i].image = _latest_jpeg)
  /\ [][/\ (hpc = "stream_read" /\ hpc' = "stream_write")
             => jpeg' = _latest_jpeg /\ rcvd' = rcvd
        /\ (hpc = "stream_read" /\ _latest_jpeg = NoImage)
             => /\ hpc' = "stream_read"
                /\ serving' = serving
                /\ rcvd' = rcvd
                /\ conn'[serving] \in {conn[serving], "closed"}
        /\ (hpc = "stream_write" /\ hpc' = "stream_read")
             => /\ Len(rcvd'[serving]) >= 1
                /\ rcvd'[serving][Len(rcvd'[serving])]
                     = [kind |-> "part", image |-> jpeg]
                /\ \A d \in Clients \ {serving} : rcvd'[d] = rcvd[d]]_vars

\* C16 witness: a connected stream client has received the image of frame 1
\* and then, read anew, the image of frame 2
C16_Witness ==
  \E c \in Clients :
    /\ conn[c] = "open"
    /\ Streaming(c)
    /\ Len(rcvd[c]) = 2
    /\ rcvd[c][1] = [kind |-> "part",
                     image |-> [n |-> 1, src |-> 1, hud |-> "CLEAR"]]
    /\ rcvd[c][2].kind = "part"
    /\ rcvd[c][2].image.n = 2
    /\ _latest_jpeg.n = 2


\* two parsed objects have the same members
SameVal(a, b) == DOMAIN a = DOMAIN b /\ \A f \in DOMAIN a : a[f] = b[f]

\* what _parse_vlm_response returns for the bare text of the object
BareResult(o) == ParseVlmResponse(RawPlain(o))

\* the call on the object inside backtick fencing, with or without the json
\* tag, gives what the call on the bare object gives
FencedAsBare ==
  parse_in.wrap \in {"fenced", "fence", "fencews"}
    => /\ parse_out.ok = BareResult(parse_in.obj).ok
       /\ parse_out.isdict = BareResult(parse_in.obj).isdict
       /\ SameVal(parse_out.val, BareResult(parse_in.obj).val)

\* the call on the object followed by prose returns the object
TrailingReturnsObject ==
  /\ parse_out.ok
  /\ parse_out.isdict
  /\ SameVal(parse_out.val, parse_in.obj)

\* an object the pattern of line 351 matches whole: not empty, no nested
\* object, no brace inside a string
FlatObject(o) == IsBraceBlock(TObj(o)) /\ BraceBlock(TObj(o)) = TObj(o)

\* C17 as stated: for every valid object J, parsing J inside backtick
\* fencing (json tag optional) gives the result of parsing J alone, and
\* parsing J followed by trailing prose succeeds and returns J.
C17_ParseFallbackAnyObject ==
  parse_out.done
    => /\ FencedAsBare
       /\ parse_in.wrap = "trailing" => TrailingReturnsObject

\* C17 amended: the fenced half holds for every valid object J; the
\* trailing-prose half holds for every J that is not empty and has neither
\* a nested object nor a brace inside a string.
C17_ParseFallback ==
  parse_out.done
    => /\ FencedAsBare
       /\ (parse_in.wrap = "trailing" /\ FlatObject(parse_in.obj))
            => TrailingReturnsObject

\* C17 witness: the object of a fire answer followed by prose was parsed
C17_Witness ==
  /\ parse_out.done
  /\ parse_in = [wrap |-> "trailing", obj |-> ObjFire]
  /\ parse_out.ok
  /\ parse_out.val = ObjFire


\* C18: a cycle that ends in a timeout or a transport error changes no
\* field of the detection state but description: alert, type, confidence,
\* latency_ms, alert_count and last_alert (and every other field) keep the
\* values they had.
C18_FailedCycleKeepsHazardFields ==
  [][(wpc = "call" /\ wpc' # "call" /\ resp'.kind \in {"timeout", "transport"})
       => /\ \A f \in DOMAIN _state \ {"description"} : _state'[f] = _state[f]
          /\ _state'.description \in
               {PyStr("Ollama timeout -- retrying..."),
                PyStr("VLM error: Cannot connect to host")}]_vars

\* C18 witness: a timeout after a cycle that stored a fire alert
C18_Witness ==
  /\ wpc = "take"
  /\ resp.kind = "timeout"
  /\ _state.description = PyStr("Ollama timeout -- retrying...")
  /\ _state.alert
  /\ _state.type = "fire"
  /\ _state.alert_count = 1
  /\ _state.last_alert # None
  /\ _state.latency_ms > 0


\* C19: the worker has at most one classification call outstanding and makes
\* exactly one call per frame it takes.  A frame is taken only while no call
\* is outstanding, and taking it starts the call; a call starts only by a
\* take; the end of a call, failed or not, puts nothing back into the queue
\* and keeps the frame local, so the next call is for a frame taken anew,
\* which is a later frame.
C19_OneCallPerFrame ==
  [][/\ (frame' # frame \/ Len(_vlm_queue') < Len(_vlm_queue))
          => /\ wpc = "take" /\ wpc' = "call"
             /\ frame' = Head(_vlm_queue)
             /\ _vlm_queue' = Tail(_vlm_queue)
             /\ frame'.n > frame.n
     /\ (wpc # "call" /\ wpc' = "call")
          => wpc = "take" /\ Len(_vlm_queue') < Len(_vlm_queue)
     /\ (wpc = "call" /\ wpc' # "call")
          => /\ wpc' \in {"take", "set_state"}
             /\ frame' = frame
             /\ _vlm_queue' = _vlm_queue
     /\ (wpc = "set_state" /\ wpc' # wpc)
          => wpc' = "take" /\ frame' = frame /\ _vlm_queue' = _vlm_queue]_vars

\* C19 witness: a call timed out and the call now outstanding is for a
\* frame taken after it
C19_Witness ==
  /\ wpc = "call"
  /\ resp.kind = "timeout"
  /\ frame.n = 2
  /\ _state.description = PyStr("Ollama timeout -- retrying...")


\* C20: with skip factor K >= 1 the Frame Loop offers a frame to the queue
\* exactly when the index of the frame, which is frame_count of that
\* iteration, is a multiple of K, so with K = 1 every frame; every frame
\* has been published when the loop comes to the offer and to the next pull,
\* whatever K is.
C20_DispatchCadence ==
  /\ [](/\ frame_skip >= 1
        /\ flpc = "offer" => _state.frame_count = frame_idx
        /\ flpc \in {"offer", "read"} => _latest_jpeg.n = frame_idx
        /\ vlm_frame.n % frame_skip = 0
        /\ \A i \in 1..Len(_vlm_queue) : _vlm_queue[i].n % frame_skip = 0
        /\ frame.n % frame_skip = 0)
  /\ [][(flpc = "offer" /\ flpc' # flpc)
          => IF frame_idx % frame_skip = 0
             THEN /\ vlm_frame' = [n |-> frame_idx, src |-> pos]
                  /\ _vlm_queue' = put_nowait(_vlm_queue, vlm_frame')
             ELSE /\ vlm_frame' = vlm_frame
                  /\ _vlm_queue' = _vlm_queue]_vars

\* C20 witness: K = 2; frame 2 was offered, frame 3 was published and has
\* passed the offer without being offered
C20_Witness ==
  /\ frame_skip = 2
  /\ frame_idx = 3
  /\ flpc = "read"
  /\ vlm_frame.n = 2
  /\ _latest_jpeg.n = 3
  /\ frame.n = 2


\* C21: frame_count never decreases; it goes up by exactly one with each
\* frame pulled and not at all on a failed pull or a rewind; it is the
\* number of frames pulled.  A step of the worker, on the success and on
\* every failure path, leaves frame_count, status and source as they are.
C21_FrameCountMonotone ==
  /\ [](_state.frame_count = frame_idx)
  /\ [][/\ _state'.frame_count \in {_state.frame_count, _state.frame_count + 1}
        /\ _state'.frame_count # _state.frame_count
             <=> (flpc = "read" /\ flpc' = "overlay")
        /\ (flpc = "read" /\ flpc' \in {"read", "done"})
             => _state'.frame_count = _state.frame_count
        /\ wpc' # wpc
             => /\ _state'.frame_count = _state.frame_count
                /\ _state'.status = _state.status
                /\ _state'.source = _state.source]_vars

\* C21 witness: the worker has stored the result for frame 1 after the
\* Frame Loop had counted frame 3
C21_Witness ==
  /\ wpc = "take"
  /\ frame.n = 1
  /\ resp.kind = "content"
  /\ _state.latency_ms > 0
  /\ _state.alert
  /\ _state.frame_count = 3
  /\ _state.status = "running"


\* the values the state may show for type and for confidence
HazardTypes == {"fire", "smoke", "both", "none"}
ConfidenceLevels == {PyStr("high"), PyStr("medium"), PyStr("low")}

\* C22: in every reachable detection state type is one of fire, smoke, both,
\* none and confidence is one of high, medium, low, whatever object the
\* classifier returned.
C22_StoredEnums ==
  /\ _state.type \in HazardTypes
  /\ _state.confidence \in ConfidenceLevels


\* C23: the alert sound is fire-and-forget.  The step of the worker that
\* finds a hazard starts one more sound thread and leaves the worker at the
\* state update; the worker has no position at which it waits for a sound,
\* no other step of it starts or ends one, and the end of a sound changes
\* nothing of the worker: cycles complete with sounds that never finish.
C23_SoundFireAndForget ==
  /\ [](wpc \in {"take", "call", "set_state"})
  /\ [][/\ (wpc = "call" /\ wpc' # wpc /\ Outcome(resp') = "alert")
             => beeping' = beeping + 1 /\ wpc' = "set_state"
        /\ (wpc' # wpc /\ ~(wpc = "call" /\ Outcome(resp') = "alert"))
             => beeping' = beeping
        /\ wpc = "set_state" /\ wpc' # wpc => wpc' = "take"
        /\ beeping' < beeping
             => UNCHANGED <<_state, _vlm_queue, wvars, flvars>>]_vars

\* C23 witness: two hazards were found and stored, and neither of the two
\* sounds has finished
C23_Witness ==
  /\ beeping = 2
  /\ _state.alert_count = 2
  /\ _state.alert
  /\ wpc = "take"
  /\ frame.n = 2


\* C24: the Frame Loop writes description only when it opens the capture,
\* which is before it has offered a frame and before the worker has taken
\* or stored anything; no step of the Frame Loop changes alert, type,
\* confidence or latency_ms, so it never overwrites what the worker stored.
C24_HazardFieldsSingleWriter ==
  [][UNCHANGED wvars
       => /\ _state'.alert = _state.alert
          /\ _state'.type = _state.type
          /\ _state'.confidence = _state.confidence
          /\ _state'.latency_ms = _state.latency_ms
          /\ _state'.description # _state.description
               => /\ flpc = "open"
                  /\ frame_idx = 0
                  /\ vlm_frame = NoFrame
                  /\ _vlm_queue = << >>
                  /\ frame = NoFrame
                  /\ resp = NoResp
                  /\ _state.description = InitialState.description]_vars

\* C24 witness: the Frame Loop has written its last status after the worker
\* stored a fire alert, and the alert with its description is still there
C24_Witness ==
  /\ flpc = "done"
  /\ _state.status = "stopped"
  /\ _state.alert
  /\ _state.type = "fire"
  /\ _state.description = PyStr("flames visible")
  /\ _state.latency_ms > 0
  /\ wpc = "take"
  /\ frame.n = frame_idx


\* C25: in every state a reader can see, last_alert is None exactly when
\* alert_count is 0.
C25_LastAlertIffCounted ==
  /\ _state.alert_count >= 0
  /\ (_state.last_alert = None) <=> (_state.alert_count = 0)

\* C25 witness: two alerts counted, the time of the second one stored
C25_Witness ==
  /\ _state.alert_count = 2
  /\ _state.last_alert = "10:00:07"
  /\ wpc = "set_state"


\* C26 as stated: in every state a reader can see, alert = true implies
\* that at least one alert has been counted and that type is fire, smoke or
\* both.
C26_AlertMeansCountedHazard ==
  _state.alert
    => /\ _state.alert_count >= 1
       /\ _state.type \in {"fire", "smoke", "both"}


\* C26 amended: in every state a reader can see, alert = true implies that
\* at least one alert has been counted, and alert = false implies that type
\* is none; with alert = true the type is the one the classifier gave.
C26_AlertMeansCounted ==
  /\ _state.alert => _state.alert_count >= 1
  /\ ~_state.alert => _state.type = "none"

\* C26 witness: an answer with detected true and type none was counted and
\* stored: the alert is shown with type none
C26_Witness ==
  /\ _state.alert
  /\ _state.alert_count = 1
  /\ _state.type = "none"
  /\ resp = Resp("content", RawPlain(ObjTrueNone))
  /\ wpc = "take"


\* thread t is inside a with-block, holding its lock
Inside(t) == At(t).op = "with" /\ Owner(At(t).lock) = t

\* thread t is at the head of a with-block and does not have the lock yet
Waiting(t) == At(t).op = "with" /\ Owner(At(t).lock) # t

\* C27: no thread ever holds _state_lock and _frame_lock at the same time;
\* a thread that holds a lock is inside a with-block whose body only touches
\* memory, so it never holds one across I/O, the queue or a sleep; and under
\* fair scheduling every thread waiting for a lock eventually holds it.
C27_LockDiscipline ==
  /\ [](\A t \in Threads : ~(_state_lock = t /\ _frame_lock = t))
  /\ [](\A t \in Threads :
          (_state_lock = t \/ _frame_lock = t)
            => Inside(t) /\ At(t).body = "memory")
  /\ \A t \in Threads : Waiting(t) ~> Inside(t)

\* the frame loop waits to publish while the stream handler reads the image
\* and the worker is inside its counter block
C27_Witness ==
  /\ lpc["A"] = "publish" /\ _frame_lock = "H" /\ lpc["H"] = "stream_read"
  /\ _state_lock = "B" /\ lpc["B"] = "count"

=============================================================================
